---------------------------- MODULE Spec2Model ----------------------------
(***************************************************************************)
(* A model of pubsub_logging/utils.py: the module-level publisher handle,  *)
(* get_pubsub_client, check_topic and publish_body, together with the      *)
(* parts of their environment they touch: the client's topic_path and      *)
(* publish calls, json.dumps(...).encode(), and the futures publish        *)
(* returns.                                                                *)
(*                                                                         *)
(* Text is a sequence of one-character strings, bytes are a sequence of    *)
(* numbers, a Python value is a record [t, n, s, items].                   *)
(***************************************************************************)
EXTENDS Integers, Sequences, FiniteSets, TLC

(***************************************************************************)
(* Bounds of the model.                                                    *)
(***************************************************************************)
NumThreads == 2    \* concurrent callers (logging threads)
MaxErrLen  == 3    \* length of a generated error text
MaxInt     == 10   \* largest integer value of a payload

Threads == 1..NumThreads

None == "None"

(***************************************************************************)
(* Text helpers.                                                           *)
(***************************************************************************)
RECURSIVE Concat(_)
Concat(ss) == IF ss = <<>> THEN <<>> ELSE Head(ss) \o Concat(Tail(ss))

\* Python's `pat in text` for strings.
Contains(text, pat) ==
    \E i \in 1..(Len(text) - Len(pat) + 1) : SubSeq(text, i, i + Len(pat) - 1) = pat

\* The printable ASCII characters, from code 32 on ("U+0060" stands for the
\* grave accent, "U+00E9" below for the non-ASCII letter e with acute).
AsciiTable ==
    << " ", "!", "\"", "#", "$", "%", "&", "'", "(", ")", "*", "+", ",", "-", ".", "/",
       "0", "1", "2", "3", "4", "5", "6", "7", "8", "9", ":", ";", "<", "=", ">", "?",
       "@", "A", "B", "C", "D", "E", "F", "G", "H", "I", "J", "K", "L", "M", "N", "O",
       "P", "Q", "R", "S", "T", "U", "V", "W", "X", "Y", "Z", "[", "\\", "]", "^", "_",
       "U+0060", "a", "b", "c", "d", "e", "f", "g", "h", "i", "j", "k", "l", "m", "n", "o",
       "p", "q", "r", "s", "t", "u", "v", "w", "x", "y", "z", "{", "|", "}", "~" >>

Ord(c) == 31 + CHOOSE i \in 1..Len(AsciiTable) : AsciiTable[i] = c

\* str.encode() of a text json.dumps produced: ensure_ascii leaves only ASCII,
\* and UTF-8 encodes an ASCII character as its code.
Encode(text) == [i \in 1..Len(text) |-> Ord(text[i])]

Digits == << "0", "1", "2", "3", "4", "5", "6", "7", "8", "9" >>

\* int.__repr__, as json.dumps uses it for an int.
RECURSIVE NatToStr(_)
NatToStr(n) == IF n < 10 THEN << Digits[n + 1] >>
               ELSE NatToStr(n \div 10) \o << Digits[(n % 10) + 1] >>

IntToStr(n) == IF n < 0 THEN << "-" >> \o NatToStr(-n) ELSE NatToStr(n)

(***************************************************************************)
(* Python values of a payload.                                             *)
(***************************************************************************)
PyNone        == [t |-> "NoneType", n |-> 0, s |-> <<>>, items |-> <<>>]
PyBool(b)     == [t |-> "bool", n |-> IF b THEN 1 ELSE 0, s |-> <<>>, items |-> <<>>]
PyInt(n)      == [t |-> "int", n |-> n, s |-> <<>>, items |-> <<>>]
PyStr(s)      == [t |-> "str", n |-> 0, s |-> s, items |-> <<>>]
\* An instance of a class json does not know; s is the class name.
PyObj(cls)    == [t |-> "object", n |-> 0, s |-> cls, items |-> <<>>]
\* A dict; items are <<key, value>> pairs in insertion order, keys are str.
PyDict(items) == [t |-> "dict", n |-> 0, s |-> <<>>, items |-> items]

(***************************************************************************)
(* json.dumps with its defaults (ensure_ascii, separators ", " and ": ").  *)
(***************************************************************************)
\* One character of a str, as py_encode_basestring_ascii writes it.
EscapeChar(c) ==
    CASE c = "\"" -> << "\\", "\"" >>
      [] c = "\\" -> << "\\", "\\" >>
      [] c = "\n" -> << "\\", "n" >>
      [] c = "U+00E9" -> << "\\", "u", "0", "0", "e", "9" >>
      [] OTHER    -> << c >>

JsonStr(s) == << "\"" >> \o Concat([i \in 1..Len(s) |-> EscapeChar(s[i])]) \o << "\"" >>

\* Whether json.dumps can encode the value (else it raises TypeError).
RECURSIVE Serializable(_)
Serializable(v) ==
    CASE v.t = "object" -> FALSE
      [] v.t = "dict"   -> \A i \in 1..Len(v.items) : Serializable(v.items[i][2])
      [] OTHER          -> TRUE

RECURSIVE JsonText(_)
RECURSIVE JsonItems(_)
JsonItems(items) ==
    IF items = <<>> THEN <<>>
    ELSE JsonStr(items[1][1]) \o << ":", " " >> \o JsonText(items[1][2])
         \o (IF Len(items) > 1 THEN << ",", " " >> \o JsonItems(Tail(items)) ELSE <<>>)

JsonText(v) ==
    CASE v.t = "NoneType" -> << "n", "u", "l", "l" >>
      [] v.t = "bool"     -> IF v.n = 1 THEN << "t", "r", "u", "e" >>
                                        ELSE << "f", "a", "l", "s", "e" >>
      [] v.t = "int"      -> IntToStr(v.n)
      [] v.t = "str"      -> JsonStr(v.s)
      [] v.t = "dict"     -> << "{" >> \o JsonItems(v.items) \o << "}" >>

\* The first value json.dumps cannot encode, in the order it walks the payload.
RECURSIVE FirstBad(_)
FirstBad(v) ==
    IF v.t = "dict"
    THEN LET bad == { i \in 1..Len(v.items) : ~Serializable(v.items[i][2]) }
             first == CHOOSE i \in bad : \A j \in bad : i <= j
         IN  FirstBad(v.items[first][2])
    ELSE v

\* str() of the TypeError json.dumps raises for value v.
NotSerializableText(v) ==
    << "O", "b", "j", "e", "c", "t", " ", "o", "f", " ", "t", "y", "p", "e", " " >>
    \o v.s
    \o << " ", "i", "s", " ", "n", "o", "t", " ", "J", "S", "O", "N", " ",
          "s", "e", "r", "i", "a", "l", "i", "z", "a", "b", "l", "e" >>


(***************************************************************************)
(* The inputs the callers and the environment draw from.                   *)
(***************************************************************************)
Projects == { "proj1", "proj2" }
Topics   == { "logs", "audit" }

Keys == { << "m", "s", "g" >>, << "k" >> }

Atoms ==
    { PyNone, PyBool(FALSE), PyInt(-MaxInt),
      PyStr(<< "h", "e", "l", "l", "o" >>), PyStr(<< "a", "\"", "U+00E9" >>),
      PyObj(<< "s", "e", "t" >>), PyObj(<< "E", "2", "0", "0" >>) }

\* Mappings of distinct keys to atoms, in every insertion order.
Dicts ==
    { PyDict(<<>>) }
    \cup { PyDict(<< <<k, v>> >>) : k \in Keys, v \in Atoms }
    \cup { PyDict(<< <<kv[1], v1>>, <<kv[2], v2>> >>) :
             kv \in { x \in Keys \X Keys : x[1] # x[2] }, v1 \in Atoms, v2 \in Atoms }

Payloads == Atoms \cup Dicts

\* The payloads of the runs with several callers.
FewPayloads ==
    { PyDict(<< << << "m", "s", "g" >>, PyStr(<< "h", "e", "l", "l", "o" >>) >> >>),
      PyDict(<< << << "k" >>, PyInt(-MaxInt) >> >>),
      PyObj(<< "s", "e", "t" >>) }

ErrChars == { "2", "0" }

RECURSIVE TextsOfLen(_)
TextsOfLen(n) ==
    IF n = 0 THEN { <<>> }
    ELSE { Append(s, c) : s \in TextsOfLen(n - 1), c \in ErrChars }

Forbidden403 == << "4", "0", "3", " ", "F", "o", "r", "b", "i", "d", "d", "e", "n" >>
Deadline200  == << "D", "e", "a", "d", "l", "i", "n", "e", " ", "e", "x", "c", "e", "e",
                   "d", "e", "d", " ", "(", "2", "0", "0", ")" >>

ErrTexts == UNION { TextsOfLen(n) : n \in 0..MaxErrLen } \cup { Forbidden403, Deadline200 }

\* Classes of what a call of the client library can raise: an error of the
\* library, and an interrupt, which is a BaseException but no Exception.
ErrTypes == { "GoogleAPICallError", "KeyboardInterrupt" }

\* An exception object: its class, its str() and its identity.
Error(type, text, id) == [type |-> type, text |-> text, id |-> id]

\* The identity of an object nobody raised yet.
NoId == << 0, None >>

\* No exception: what a call that returns normally "raises".
NoError == Error(None, <<>>, NoId)

\* What the environment can raise inside a call (identity given at the raise).
Raisable     == { Error(ty, tx, NoId) : ty \in ErrTypes, tx \in ErrTexts }
FewRaisable  == { Error("GoogleAPICallError", tx, NoId) : tx \in { Forbidden403, Deadline200 } }

\* The text line 104 looks for.
Text200 == << "2", "0", "0" >>

\* isinstance(e, Exception)
IsException(e) == e.type # "KeyboardInterrupt"


(***************************************************************************)
(* The state.                                                              *)
(***************************************************************************)
VARIABLES
    module,            \* "unloaded", "loaded" or "failed": the import of utils.py
    published_client,  \* the module's global: a handle, or NoHandle before line 32
    constructed,       \* how many PublisherClient() constructions succeeded
    client,            \* per caller: the handle get_pubsub_client gave it
    pc,                \* per caller: "idle", its place inside publish_body, or
                       \* "done" when its call has ended and the result is its
    args,              \* per caller: the arguments of its current or latest call
    topic_path,        \* per caller: publish_body's local topic_path
    data,              \* per caller: the bytes json.dumps(body).encode() gave
    exc,               \* per caller: the exception a call made by its current or
                       \* latest call raised, NoError when none did
    result,            \* per caller: how its latest call ended
    transport          \* the publish calls the transport received from the
                       \* calls that are running or "done"

vars == << module, published_client, constructed, client, pc, args, topic_path,
           data, exc, result, transport >>

NoHandle == 0

NoArgs == [fn |-> None, client |-> NoHandle, body |-> PyNone,
           project_id |-> None, topic |-> None]

\* How a call ended: kind is "none" (not ended), "returned" or "raised".
Result(kind, value, handle, err) ==
    [kind |-> kind, value |-> value, handle |-> handle, err |-> err]

NoResult     == Result("none", None, NoHandle, NoError)
Returned(v)  == Result("returned", v, NoHandle, NoError)
Raised(e)    == Result("raised", None, NoHandle, e)

Init ==
    /\ module = "unloaded"
    /\ published_client = NoHandle
    /\ constructed = 0
    /\ client = [t \in Threads |-> NoHandle]
    /\ pc = [t \in Threads |-> "idle"]
    /\ args = [t \in Threads |-> NoArgs]
    /\ topic_path = [t \in Threads |-> <<>>]
    /\ data = [t \in Threads |-> <<>>]
    /\ exc = [t \in Threads |-> NoError]
    /\ result = [t \in Threads |-> NoResult]
    /\ transport = {}

(***************************************************************************)
(* The client library, as the module uses it.                              *)
(***************************************************************************)
\* pubsub_v1.PublisherClient(): the n-th construction gives handle n.
PublisherClient(n) == n

\* client.topic_path(project_id, topic): "projects/<project>/topics/<topic>",
\* kept as its segments.
TopicPath(project_id, topic) == << "projects", project_id, "topics", topic >>

\* One publish call as the transport saw it; state is "raised" when the call
\* raised, else the state of the future it returned.
Submission(t, n, h, path, bytes, state) ==
    [by |-> t, n |-> n, client |-> h, path |-> path, data |-> bytes, state |-> state]

Mine(t) == { s \in transport : s.by = t }

\* The caller can enter a function of the module: the import has run (the
\* functions exist only after line 32) and it is in no other call.
CanCall(t) == module = "loaded" /\ pc[t] = "idle"

(***************************************************************************)
(* Lines 30-32: the import of the module constructs the publisher.         *)
(***************************************************************************)
import_module(ok) ==
    /\ module \in { "unloaded", "failed" }
    /\ IF ok
       THEN /\ published_client' = PublisherClient(constructed + 1)
            /\ constructed' = constructed + 1
            /\ module' = "loaded"
       ELSE \* PublisherClient() raised: the import fails, nothing is defined
            /\ module' = "failed"
            /\ UNCHANGED << published_client, constructed >>
    /\ UNCHANGED << client, pc, args, topic_path, data, exc, result, transport >>

(***************************************************************************)
(* Lines 49-58: get_pubsub_client.                                         *)
(***************************************************************************)
\* A get_pubsub_client that builds a client of its own from the overrides.
ClientHandleFromOverrides(http, credentials) ==
    IF http = None /\ credentials = None THEN published_client
    ELSE PublisherClient(constructed + 1)

\* The handle the function returns; http and credentials are not read.
ClientHandle(http, credentials) == published_client

get_pubsub_client(t, http, credentials) ==
    /\ CanCall(t)
    /\ LET h == ClientHandle(http, credentials)
       IN  /\ client' = [client EXCEPT ![t] = h]
           /\ result' = [result EXCEPT ![t] = Result("returned", "client", h, NoError)]
    /\ args' = [args EXCEPT ![t] = [NoArgs EXCEPT !.fn = "get_pubsub_client"]]
    /\ pc' = [pc EXCEPT ![t] = "done"]
    /\ UNCHANGED << module, published_client, constructed, topic_path, data, exc,
                    transport >>

(***************************************************************************)
(* Lines 61-79: check_topic. r is what client.topic_path does: NoError     *)
(* when it returns, else the exception it raises.                          *)
(***************************************************************************)
\* check_topic ignores every Exception and lets anything else through.
CheckTopicPropagates(r) ==
    IF r = NoError THEN Returned("True") ELSE Raised(r)

CheckTopicResult(r) ==
    IF r = NoError THEN Returned("True")             \* lines 75-76
    ELSE IF IsException(r) THEN Returned("False")   \* lines 77-79
    ELSE Raised(r)                                   \* no Exception: not caught

check_topic(t, project_id, topic, r) ==
    /\ CanCall(t)
    /\ client[t] # NoHandle
    /\ args' = [args EXCEPT ![t] = [fn |-> "check_topic", client |-> client[t],
                                    body |-> PyNone, project_id |-> project_id,
                                    topic |-> topic]]
    /\ exc' = [exc EXCEPT ![t] = IF r = NoError THEN r
                                 ELSE [r EXCEPT !.id = << t, "topic_path" >>]]
    /\ result' = [result EXCEPT ![t] = CheckTopicResult(exc'[t])]
    /\ pc' = [pc EXCEPT ![t] = "done"]
    /\ UNCHANGED << module, published_client, constructed, client, topic_path, data,
                    transport >>


(***************************************************************************)
(* Lines 82-112: publish_body, one action per call it makes.               *)
(***************************************************************************)
publish_body(t, body, project_id, topic) ==
    /\ CanCall(t)
    /\ client[t] # NoHandle
    /\ args' = [args EXCEPT ![t] = [fn |-> "publish_body", client |-> client[t],
                                    body |-> body, project_id |-> project_id,
                                    topic |-> topic]]
    /\ pc' = [pc EXCEPT ![t] = "topic_path"]
    /\ UNCHANGED << module, published_client, constructed, client, topic_path, data,
                    exc, result, transport >>

\* Where the try block goes after a call in it raised e: to the except clause.
Raise(t, e, where) ==
    /\ exc' = [exc EXCEPT ![t] = [e EXCEPT !.id = << t, where >>]]
    /\ pc' = [pc EXCEPT ![t] = "except"]

\* Line 99: client.topic_path(project_id, topic) returns.
topic_path_returns(t) ==
    /\ pc[t] = "topic_path"
    /\ topic_path' = [topic_path EXCEPT ![t] = TopicPath(args[t].project_id, args[t].topic)]
    /\ pc' = [pc EXCEPT ![t] = "dumps"]
    /\ UNCHANGED << module, published_client, constructed, client, args, data, exc,
                    result, transport >>

\* Line 99: client.topic_path(project_id, topic) raises e.
topic_path_raises(t, e) ==
    /\ pc[t] = "topic_path"
    /\ Raise(t, e, "topic_path")
    /\ UNCHANGED << module, published_client, constructed, client, args, topic_path,
                    data, result, transport >>

\* The payload encoded twice: json.dumps(json.dumps(body)).encode().
PublishDataTwice(body) == Encode(JsonStr(JsonText(body)))

\* Line 100, the argument: json.dumps(body).encode().
PublishData(body) == Encode(JsonText(body))

dumps_returns(t) ==
    /\ pc[t] = "dumps"
    /\ Serializable(args[t].body)
    /\ data' = [data EXCEPT ![t] = PublishData(args[t].body)]
    /\ pc' = [pc EXCEPT ![t] = "publish"]
    /\ UNCHANGED << module, published_client, constructed, client, args, topic_path,
                    exc, result, transport >>

\* A json.dumps(body, default=...) that writes null for what it cannot encode.
dumps_default(t) ==
    /\ pc[t] = "dumps"
    /\ ~Serializable(args[t].body)
    /\ data' = [data EXCEPT ![t] = Encode(JsonText(PyNone))]
    /\ pc' = [pc EXCEPT ![t] = "publish"]
    /\ UNCHANGED << module, published_client, constructed, client, args, topic_path,
                    exc, result, transport >>

dumps_raises(t) ==
    /\ pc[t] = "dumps"
    /\ ~Serializable(args[t].body)
    /\ Raise(t, Error("TypeError", NotSerializableText(FirstBad(args[t].body)), NoId),
             "json.dumps")
    /\ UNCHANGED << module, published_client, constructed, client, args, topic_path,
                    data, result, transport >>

\* A client that batches: a call joins a pending call to the same path.
DeliverBatched(log, s) ==
    LET open == { o \in log : o.path = s.path /\ o.state = "pending" /\ o.by # s.by }
    IN  IF open = {} THEN log \cup { s }
        ELSE LET o == CHOOSE x \in open : TRUE
             IN  (log \ { o }) \cup { [o EXCEPT !.data = o.data \o s.data] }

\* The transport takes one publish call.
Deliver(log, s) == log \cup { s }

\* The publish call line 100 makes: to the path and with the bytes of the
\* caller's own frame.
PublishCall(t, state) ==
    Submission(t, Cardinality(Mine(t)) + 1, args[t].client, topic_path[t], data[t], state)

\* A publish_body that asks the future for its result.
AfterPublishResult(state) ==
    IF state = "failed" THEN Raised(Error("GoogleAPICallError", Forbidden403, NoId))
    ELSE Returned(None)

\* What publish_body does with the future publish returned: nothing, it
\* falls off the end of the try block and returns None.
AfterPublish(state) == Returned(None)

\* Line 100: client.publish(...) returns a future, pending or already failed.
publish_returns(t, state) ==
    /\ pc[t] = "publish"
    /\ transport' = Deliver(transport, PublishCall(t, state))
    /\ result' = [result EXCEPT ![t] = AfterPublish(state)]
    /\ pc' = [pc EXCEPT ![t] = "done"]
    /\ UNCHANGED << module, published_client, constructed, client, args, topic_path,
                    data, exc >>

\* Line 100: client.publish(...) raises e.
publish_raises(t, e) ==
    /\ pc[t] = "publish"
    /\ transport' = Deliver(transport, PublishCall(t, "raised"))
    /\ Raise(t, e, "publish")
    /\ UNCHANGED << module, published_client, constructed, client, args, topic_path,
                    data, result >>

Recoverable(t) == Raised(Error("RecoverableError", <<>>, << t, "RecoverableError()" >>))

\* An except clause without its else branch.
ExceptNeverRecoverable(t, e) == Raised(e)

\* An except clause that raises a copy of the error: raise type(e)(str(e)).
ExceptCopy(t, e) ==
    IF ~IsException(e) THEN Raised(e)
    ELSE IF ~Contains(e.text, Text200) THEN Raised([e EXCEPT !.id = << t, "copy" >>])
    ELSE Recoverable(t)

\* An except clause that converts only what client.publish raised.
ExceptPublishOnly(t, e) ==
    IF ~IsException(e) THEN Raised(e)
    ELSE IF ~Contains(e.text, Text200) \/ e.id[2] # "publish" THEN Raised(e)
    ELSE Recoverable(t)

\* Lines 101-112: how publish_body ends when the try block raised e.
Except(t, e) ==
    IF ~IsException(e) THEN Raised(e)                  \* line 101: not caught
    ELSE IF ~Contains(e.text, Text200) THEN Raised(e)  \* lines 104-109: raise
    ELSE Recoverable(t)                                \* lines 110-112

\* An except clause inside a retry loop: a recoverable error publishes again.
AfterExceptRetry(t) ==
    IF IsException(exc[t]) /\ Contains(exc[t].text, Text200) /\ exc[t].id[2] = "publish"
    THEN "publish" ELSE "done"

\* Where publish_body goes after the except clause: out, to its caller.
AfterExcept(t) == "done"

except(t) ==
    /\ pc[t] = "except"
    /\ result' = [result EXCEPT ![t] = Except(t, exc[t])]
    /\ pc' = [pc EXCEPT ![t] = AfterExcept(t)]
    /\ UNCHANGED << module, published_client, constructed, client, args, topic_path,
                    data, exc, transport >>

(***************************************************************************)
(* The transport settles a future publish returned: delivered, or failed.  *)
(***************************************************************************)
future_done(s, state) ==
    /\ s \in transport
    /\ s.state = "pending"
    /\ transport' = (transport \ { s }) \cup { [s EXCEPT !.state = state] }
    /\ UNCHANGED << module, published_client, constructed, client, pc, args,
                    topic_path, data, exc, result >>

(***************************************************************************)
(* The caller takes the result of its call and goes on: the frame of the   *)
(* call is gone, and so is what the model kept of the call.                *)
(***************************************************************************)
caller_resumes(t) ==
    /\ pc[t] = "done"
    /\ pc' = [pc EXCEPT ![t] = "idle"]
    /\ args' = [args EXCEPT ![t] = NoArgs]
    /\ topic_path' = [topic_path EXCEPT ![t] = <<>>]
    /\ data' = [data EXCEPT ![t] = <<>>]
    /\ result' = [result EXCEPT ![t] = NoResult]
    /\ exc' = [exc EXCEPT ![t] = NoError]
    /\ transport' = transport \ Mine(t)
    /\ UNCHANGED << module, published_client, constructed, client >>

(***************************************************************************)
(* One caller, every input.                                                *)
(***************************************************************************)
Overrides == { None, "given" }

Next ==
    \/ \E ok \in BOOLEAN : import_module(ok)
    \/ \E http \in Overrides, credentials \in Overrides :
          get_pubsub_client(1, http, credentials)
    \/ \E p \in Projects, tp \in Topics, r \in Raisable \cup { NoError } :
          check_topic(1, p, tp, r)
    \/ \E b \in Payloads, p \in Projects, tp \in Topics : publish_body(1, b, p, tp)
    \/ topic_path_returns(1)
    \/ \E e \in Raisable : topic_path_raises(1, e)
    \/ dumps_returns(1)
    \/ dumps_raises(1)
    \/ \E st \in { "pending", "failed" } : publish_returns(1, st)
    \/ \E e \in Raisable : publish_raises(1, e)
    \/ except(1)
    \/ caller_resumes(1)
    \/ \E s \in transport, st \in { "ok", "failed" } : future_done(s, st)

Spec == Init /\ [][Next]_vars

(***************************************************************************)
(* Several callers, few inputs.                                            *)
(***************************************************************************)
NextThreads ==
    \/ \E ok \in BOOLEAN : import_module(ok)
    \/ \E t \in Threads, http \in Overrides, credentials \in Overrides :
          get_pubsub_client(t, http, credentials)
    \/ \E t \in Threads, b \in FewPayloads, p \in Projects : publish_body(t, b, p, "logs")
    \/ \E t \in Threads : topic_path_returns(t)
    \/ \E t \in Threads, e \in FewRaisable : topic_path_raises(t, e)
    \/ \E t \in Threads : dumps_returns(t)
    \/ \E t \in Threads : dumps_raises(t)
    \/ \E t \in Threads : publish_returns(t, "pending")
    \/ \E t \in Threads, e \in FewRaisable : publish_raises(t, e)
    \/ \E t \in Threads : except(t)
    \/ \E t \in Threads : caller_resumes(t)

SpecThreads == Init /\ [][NextThreads]_vars


(***************************************************************************)
(* The properties.                                                         *)
(***************************************************************************)
\* The caller's call of fn has ended and its result is before the caller.
Ended(t, fn) == pc[t] = "done" /\ args[t].fn = fn

\* The call raised an error (an Exception) at the given place.
ErrorAt(t, where) ==
    exc[t] # NoError /\ IsException(exc[t]) /\ exc[t].id = << t, where >>

IsRecoverable(r) == r.kind = "raised" /\ r.err.type = "RecoverableError"

\* b'{"msg": "hello"}'
HelloBytes == << 123, 34, 109, 115, 103, 34, 58, 32, 34, 104, 101, 108, 108, 111, 34, 125 >>

HelloBody == PyDict(<< << << "m", "s", "g" >>, PyStr(<< "h", "e", "l", "l", "o" >>) >> >>)

\* C1: when client.publish raised an error whose text contains "200",
\* publish_body ends by raising a RecoverableError, which is another object
\* than the error publish raised.
C1_Recoverable ==
    \A t \in Threads :
        (Ended(t, "publish_body") /\ ErrorAt(t, "publish")
         /\ Contains(exc[t].text, Text200))
        => (IsRecoverable(result[t]) /\ result[t].err # exc[t])

\* C1's case: publish raised "Deadline exceeded (200)" and the call has ended.
C1_Witness ==
    \E t \in Threads :
        /\ Ended(t, "publish_body") /\ ErrorAt(t, "publish")
        /\ exc[t].text = Deadline200
        /\ IsRecoverable(result[t])

\* C2: when client.publish raised an error whose text does not contain "200",
\* publish_body ends by raising that very error: the same object, hence the
\* same type and text, and no RecoverableError.
C2_Reraised ==
    \A t \in Threads :
        (Ended(t, "publish_body") /\ ErrorAt(t, "publish")
         /\ ~Contains(exc[t].text, Text200))
        => (result[t] = Raised(exc[t]) /\ ~IsRecoverable(result[t]))

\* C2's case: publish raised "403 Forbidden" and the call has ended.
C2_Witness ==
    \E t \in Threads :
        /\ Ended(t, "publish_body") /\ ErrorAt(t, "publish")
        /\ exc[t].text = Forbidden403
        /\ result[t].kind = "raised" /\ result[t].err.text = Forbidden403

\* C3: when publish_body returned normally, the transport received exactly one
\* publish call of this invocation, on the caller's client, to the path of
\* (project_id, topic) and with the bytes of the JSON text of the body.
C3_OneSubmission ==
    \A t \in Threads :
        (Ended(t, "publish_body") /\ result[t].kind = "returned")
        => /\ Cardinality(Mine(t)) = 1
           /\ \A s \in Mine(t) :
                 /\ s.client = args[t].client
                 /\ s.path = TopicPath(args[t].project_id, args[t].topic)
                 /\ s.path = topic_path[t]
                 /\ s.data = Encode(JsonText(args[t].body))
                 /\ s.state # "raised"

\* C3's case: {"msg": "hello"} published to proj1/logs arrived as
\* b'{"msg": "hello"}' at projects/proj1/topics/logs.
C3_Witness ==
    \E t \in Threads :
        /\ Ended(t, "publish_body") /\ result[t].kind = "returned"
        /\ args[t].body = HelloBody
        /\ \E s \in Mine(t) :
              /\ s.data = HelloBytes
              /\ s.path = << "projects", "proj1", "topics", "logs" >>

\* C4: check_topic returns True when client.topic_path returned, returns False
\* when it raised an error, and in neither case raises to its caller.
C4_CheckTopic ==
    \A t \in Threads :
        Ended(t, "check_topic")
        => /\ exc[t] = NoError => result[t] = Returned("True")
           /\ ErrorAt(t, "topic_path") => result[t] = Returned("False")
           /\ (exc[t] = NoError \/ ErrorAt(t, "topic_path")) => result[t].kind # "raised"

\* C4's case: topic_path raised an error and check_topic returned False.
C4_Witness ==
    \E t \in Threads :
        /\ Ended(t, "check_topic") /\ ErrorAt(t, "topic_path")
        /\ Contains(exc[t].text, Text200)
        /\ result[t] = Returned("False")

\* The handle is the one the import constructed, and every caller that holds
\* or is being handed a handle holds that one.
OneHandle ==
    /\ module = "loaded" => (constructed = 1 /\ published_client = PublisherClient(1))
    /\ module # "loaded" => (constructed = 0 /\ published_client = NoHandle)
    /\ \A t \in Threads :
          /\ client[t] # NoHandle => (module = "loaded" /\ client[t] = published_client)
          /\ Ended(t, "get_pubsub_client")
             => (result[t].kind = "returned" /\ result[t].handle = published_client
                 /\ published_client # NoHandle)

\* C5: every call of get_pubsub_client, by any caller and with any overrides,
\* returns the one handle the import of the module constructed; it is
\* constructed once, before any call can return, and once constructed it is
\* never replaced.
C5_SharedHandle ==
    /\ []OneHandle
    /\ [][published_client # NoHandle => published_client' = published_client]_vars

\* C5's case: two callers were each handed the handle, and it is the same.
C5_Witness ==
    \E t \in Threads, u \in Threads :
        /\ t # u
        /\ client[t] # NoHandle /\ client[t] = client[u]
        /\ Ended(t, "get_pubsub_client") /\ Ended(u, "get_pubsub_client")

C7_Outcomes ==
    \A t \in Threads :
        Ended(t, "publish_body")
        => /\ \/ result[t] = Returned(None) /\ exc[t] = NoError
              \/ exc[t] # NoError /\ result[t] = Raised(exc[t])
              \/ exc[t] # NoError /\ result[t] = Recoverable(t)
           /\ (exc[t] # NoError /\ IsException(exc[t]))
              => (IsRecoverable(result[t]) <=> Contains(exc[t].text, Text200))

\* C7's case: json.dumps raised a TypeError whose text contains "200" and the
\* call ended with RecoverableError.
C7_Witness ==
    \E t \in Threads :
        /\ Ended(t, "publish_body") /\ ErrorAt(t, "json.dumps")
        /\ Contains(exc[t].text, Text200)
        /\ IsRecoverable(result[t])

\* C8: the steps come in the order resolve, serialize, submit: a publish call
\* was made only with the path resolved and the bytes computed, and when
\* topic_path raised or the body is not JSON-serializable the invocation
\* makes no publish call.
C8_Order ==
    \A t \in Threads :
        /\ \A s \in Mine(t) :
              /\ topic_path[t] # <<>> /\ s.path = topic_path[t]
              /\ Serializable(args[t].body) /\ s.data = data[t]
        /\ (args[t].fn = "publish_body"
            /\ (exc[t].id = << t, "topic_path" >> \/ ~Serializable(args[t].body)))
           => Mine(t) = {}

\* C8's case: the path was resolved, the body was not serializable, the call
\* has ended and nothing was submitted.
C8_Witness ==
    \E t \in Threads :
        /\ Ended(t, "publish_body") /\ topic_path[t] # <<>>
        /\ ~Serializable(args[t].body) /\ exc[t].id = << t, "json.dumps" >>
        /\ Mine(t) = {}

\* C9: once client.publish returned a future, publish_body has returned
\* normally, whatever the state of the future: pending, delivered or failed.
C9_NoWait ==
    \A s \in transport :
        s.state \in { "pending", "ok", "failed" }
        => (pc[s.by] = "done" /\ result[s.by] = Returned(None))

\* C9's case: the future failed and the call had returned normally.
C9_Witness ==
    \E s \in transport :
        /\ s.state = "failed"
        /\ Ended(s.by, "publish_body") /\ result[s.by] = Returned(None)

\* C10: with several callers inside publish_body in any interleaving, every
\* publish call the transport holds is the call of one invocation, to that
\* invocation's path with that invocation's bytes, and every invocation that
\* returned normally has exactly one.
C10_Isolation ==
    /\ \A s \in transport :
          /\ args[s.by].fn = "publish_body"
          /\ s.n = 1
          /\ s.client = args[s.by].client
          /\ s.path = TopicPath(args[s.by].project_id, args[s.by].topic)
          /\ s.data = Encode(JsonText(args[s.by].body))
    /\ \A t \in Threads :
          (Ended(t, "publish_body") /\ result[t].kind = "returned")
          => Cardinality({ s \in transport : s.by = t }) = 1
    /\ Cardinality(transport)
         = Cardinality({ t \in Threads : \E s \in transport : s.by = t })

\* C10's case: two callers published different payloads to the same path, and
\* both have returned normally.
C10_Witness ==
    \E t \in Threads, u \in Threads :
        /\ t # u
        /\ Ended(t, "publish_body") /\ result[t].kind = "returned"
        /\ Ended(u, "publish_body") /\ result[u].kind = "returned"
        /\ args[t].body # args[u].body
        /\ args[t].project_id = args[u].project_id
        /\ Cardinality(transport) >= 2

=============================================================================
